---- MODULE Spec2Model ----
(***************************************************************************)
(* Model of the DAG execution engine of subsets_utils (dag.py): the        *)
(* topological scheduler, the per-node task states, the run loop with its  *)
(* dependency check, the inline and the subprocess execution strategies    *)
(* and the checkpoint written by save_state after every node; and of the   *)
(* supervisor (runner.py) that runs the pipeline as a child process,       *)
(* classifies its exit code and uploads the logs.                          *)
(*                                                                         *)
(* Strings with dots (module paths, task ids, targets) are sequences of    *)
(* their dot-separated components: "nodes.ingest.run" is                   *)
(* <<"nodes", "ingest", "run">>.                                           *)
(***************************************************************************)
EXTENDS Integers, Sequences, FiniteSets, TLC

\* ------------------------------------------------------------------ bounds
NumNodes == 3        \* functions in the node mapping
MaxDeps == 2         \* longest dependency list of a node
MaxTargets == 2      \* most entries in a targets list
MaxTrack == 2        \* most calls of track_read / track_write in a behaviour

VARIABLES
    nodes,          \* self.nodes: function -> list of its dependencies
    state,          \* self.state: task id -> task state
    pc,             \* position of the caller / of DAG.run
    order,          \* local `order` of run
    idx,            \* position of the run loop in `order` (1-based)
    isolate,        \* argument of run
    targets,        \* argument of run, as a set ({} for None or [])
    log_dir,        \* whether the environment has a non-empty LOG_DIR
    checkpoints,    \* successive contents of LOG_DIR/dag.json
    current_task,   \* the ContextVar _current_task of the parent process
    exception,      \* exception that left run, NoException if none
    called,         \* functions whose body was invoked in this run
    marked,         \* functions the dependency check marked skipped
    child_state,    \* local_state of the worker in the subprocess
    track_calls,    \* number of track_read / track_write calls made
    sup_pc,         \* position of runner.main
    env_run_id,     \* RUN_ID in the supervisor's environment, or Absent
    cloud_mode,     \* is_cloud_mode(): CI is 'true' in the environment
    run_id,         \* local run_id of main
    exit_code,      \* local exit_code of main: what process.wait() returned
    error_log,      \* content of error.json in the log directory
    log_files,      \* files in the run's log directory
    upload_attempts,\* calls of upload_file made by upload_logs, in order
    sup_exit,       \* exit status of the supervisor process
    child,          \* the pipeline process: none, running, dead, reaped
    child_code,     \* what the pipeline process ended with, as wait sees it
    child_env,      \* RUN_ID and LOG_DIR in the environment given to Popen
    handler_installed, \* signal.signal(SIGTERM, handle_sigterm) was called
    term_sent,      \* handle_sigterm called process.terminate()
    kill_sent,      \* handle_sigterm called process.kill()
    exited_in_grace,\* the pipeline had exited when the handler's wait ended
    prof_pc,        \* position of the thread of MemoryProfiler._sample_loop
    stop_flag,      \* MemoryProfiler._stop
    prof_error,     \* the psutil error that ended the sampling loop
    descendants,    \* live processes the pipeline process has started
    last_sample,    \* processes summed in the last row of memory.csv
    last_excluded,  \* descendants that had exited when the last row read them
    second_run,     \* run was called before on this DAG instance
    fn_module,      \* fn.__module__ of each key of the mapping given to DAG
    fn_name,        \* fn.__name__ of each key of the mapping given to DAG
    init_pc,        \* position of DAG.__init__
    fn_to_id,       \* self._fn_to_id as __init__ builds it
    new_state       \* self.state as __init__ builds it and _run_task sets it

vars == <<nodes, state, pc, order, idx, isolate, targets, log_dir,
          checkpoints, current_task, exception, called, marked,
          child_state, track_calls, sup_pc, env_run_id, cloud_mode, run_id,
          exit_code, error_log, log_files, upload_attempts, sup_exit,
          child, child_code, child_env, handler_installed, term_sent,
          kill_sent, exited_in_grace, prof_pc, stop_flag, prof_error,
          descendants, last_sample, last_excluded, second_run,
          fn_module, fn_name, init_pc, fn_to_id, new_state>>

\* the keys of the mapping as __init__ sees them, and what it builds
ctorVars == <<fn_module, fn_name, init_pc, fn_to_id, new_state>>

\* the variables of the supervisor
runnerVars == <<sup_pc, env_run_id, cloud_mode, run_id, exit_code, error_log,
                log_files, upload_attempts, sup_exit,
                child, child_code, child_env, handler_installed, term_sent,
                kill_sent, exited_in_grace, prof_pc, stop_flag, prof_error,
                descendants, last_sample, last_excluded>>

\* the pipeline process and the signal handling of the supervisor
childVars == <<child, child_code, child_env, handler_installed, term_sent,
               kill_sent, exited_in_grace, descendants>>

\* the memory profiler
profVars == <<prof_pc, stop_flag, prof_error, last_sample,
              last_excluded>>

\* what main computes and leaves behind
mainVars == <<run_id, exit_code, error_log, log_files, upload_attempts,
              sup_exit>>

\* the variables of the DAG and of the tracking context
dagVars == <<nodes, state, pc, order, idx, isolate, targets, log_dir,
             checkpoints, current_task, exception, called, marked,
             child_state, track_calls, second_run, ctorVars>>

\* --------------------------------------------------------------- functions
Fns == 1..NumNodes      \* the functions, numbered in insertion order

\* fn.__module__ of the functions used as nodes
FnModule(fn) ==
    CASE fn = 1 -> <<"src", "nodes", "ingest">>
      [] fn = 2 -> <<"src", "nodes", "transform">>
      [] fn = 3 -> <<"src", "nodes", "transform">>
      [] fn = 4 -> <<"__main__">>
      [] OTHER  -> <<"src", "extra", ToString(fn)>>

\* fn.__name__ of the functions used as nodes
FnName(fn) ==
    CASE fn = 1 -> "run"
      [] fn = 2 -> "run"
      [] fn = 3 -> "publish"
      [] fn = 4 -> "ingest"
      [] OTHER  -> "run"

\* _get_task_id: module with a leading 'src.' stripped, then the name
GetTaskId(fn) ==
    LET module == FnModule(fn)
        stripped == IF Len(module) > 1 /\ module[1] = "src"
                    THEN Tail(module) ELSE module
    IN  Append(stripped, FnName(fn))

\* _get_task_id on a function with the given __module__ and __name__
TaskIdOf(module, name) ==
    Append(IF Len(module) > 1 /\ module[1] = "src"
           THEN Tail(module) ELSE module, name)

\* self._fn_to_id
FnToId == [fn \in Fns |-> GetTaskId(fn)]

TaskIds == {FnToId[fn] : fn \in Fns}

None == <<"None">>
NoError == <<>>
NoRows == <<>>       \* no "rows_written" key; <<n>> is the value n
NoException == "none"

\* ------------------------------------------------------ dependency lists
\* duplicate-free lists of functions of the mapping, at most MaxDeps long,
\* written in increasing order
DepLists ==
    {d \in UNION {[1..k -> Fns] : k \in 0..MaxDeps} :
        \A i, j \in 1..Len(d) : i < j => d[i] < d[j]}

\* `x in lst`
Contains(lst, x) == \E k \in 1..Len(lst) : lst[k] = x

\* ------------------------------------------------- DAG._topological_order
\* DecrementLoop without the `if in_degree[other_fn] == 0` test
RECURSIVE DecrementLoopNoZeroTest(_, _, _, _, _)
DecrementLoopNoZeroTest(n, fn, k, in_degree, ready) ==
    IF k > NumNodes THEN <<in_degree, ready>>
    ELSE IF Contains(n[k], fn)
         THEN DecrementLoopNoZeroTest(n, fn, k + 1,
                    [in_degree EXCEPT ![k] = in_degree[k] - 1],
                    Append(ready, k))
         ELSE DecrementLoopNoZeroTest(n, fn, k + 1, in_degree, ready)

\* the `for other_fn, deps in self.nodes.items()` loop, from position k
RECURSIVE DecrementLoop(_, _, _, _, _)
DecrementLoop(n, fn, k, in_degree, ready) ==
    IF k > NumNodes THEN <<in_degree, ready>>
    ELSE IF Contains(n[k], fn)
         THEN LET d == in_degree[k] - 1
              IN  DecrementLoop(n, fn, k + 1,
                                [in_degree EXCEPT ![k] = d],
                                IF d = 0 THEN Append(ready, k) ELSE ready)
         ELSE DecrementLoop(n, fn, k + 1, in_degree, ready)

\* KahnLoop with `ready.pop()` (the last element) for `ready.pop(0)`
RECURSIVE KahnLoopPopLast(_, _, _, _)
KahnLoopPopLast(n, ready, in_degree, ord) ==
    IF ready = <<>> THEN ord
    ELSE LET fn == ready[Len(ready)]
             r  == DecrementLoop(n, fn, 1, in_degree,
                                 SubSeq(ready, 1, Len(ready) - 1))
         IN  KahnLoopPopLast(n, r[2], r[1], Append(ord, fn))

\* the `while ready` loop
RECURSIVE KahnLoop(_, _, _, _)
KahnLoop(n, ready, in_degree, ord) ==
    IF ready = <<>> THEN ord
    ELSE LET fn == Head(ready)
             r  == DecrementLoop(n, fn, 1, in_degree, Tail(ready))
         IN  KahnLoop(n, r[2], r[1], Append(ord, fn))

\* [fn for fn, deg in in_degree.items() if deg == 0]
InitialReady(n) == SelectSeq([k \in 1..NumNodes |-> k], LAMBDA fn : Len(n[fn]) = 0)

\* _topological_order without the length test that detects a cycle
TopologicalOrderNoCycleTest(n) ==
    [ok |-> TRUE,
     order |-> KahnLoop(n, InitialReady(n), [fn \in Fns |-> Len(n[fn])], <<>>)]

\* result of _topological_order: the order, or the ValueError
TopologicalOrder(n) ==
    LET ord == KahnLoop(n, InitialReady(n), [fn \in Fns |-> Len(n[fn])], <<>>)
    IN  IF Len(ord) # NumNodes
        THEN [ok |-> FALSE, order |-> <<>>]
        ELSE [ok |-> TRUE, order |-> ord]


\* --------------------------------------------------------- target filter
\* self._fn_to_id[fn].split(".")[-2]
ShortModule(id) == id[Len(id) - 1]

\* the strings a caller passes as targets: the last component of a module,
\* a function name, a name of nothing, a task id
TargetUniverse ==
    {<<"ingest">>, <<"run">>, <<"nosuch">>, FnToId[2]}

TargetChoices ==
    {t \in SUBSET TargetUniverse : Cardinality(t) <= MaxTargets}

\* SelectTargets matching a function by the last component of a target
SelectTargetsByLastComponent(ord, target_set) ==
    LET byModule == SelectSeq(ord,
            LAMBDA fn : <<ShortModule(FnToId[fn])>> \in target_set)
        byIdOrName == SelectSeq(ord,
            LAMBDA fn : \E t \in target_set : t[Len(t)] = FnName(fn))
    IN  IF byModule # <<>> THEN byModule ELSE byIdOrName

\* SelectTargets falling back to the whole order when nothing matches
SelectTargetsFallbackAll(ord, target_set) ==
    LET byModule == SelectSeq(ord,
            LAMBDA fn : <<ShortModule(FnToId[fn])>> \in target_set)
        byIdOrName == SelectSeq(ord,
            LAMBDA fn : FnToId[fn] \in target_set
                        \/ <<FnName(fn)>> \in target_set)
    IN  IF byModule # <<>> THEN byModule
        ELSE IF byIdOrName # <<>> THEN byIdOrName ELSE ord

\* the two list comprehensions of run that restrict `order` to the targets
SelectTargets(ord, target_set) ==
    LET byModule == SelectSeq(ord,
            LAMBDA fn : <<ShortModule(FnToId[fn])>> \in target_set)
        byIdOrName == SelectSeq(ord,
            LAMBDA fn : FnToId[fn] \in target_set
                        \/ <<FnName(fn)>> \in target_set)
    IN  IF byModule # <<>> THEN byModule ELSE byIdOrName

\* ------------------------------------------------------------ task states
\* the dict DAG.__init__ stores for a task ("error" and "traceback" absent)
InitialTaskState(task_id) ==
    [id |-> task_id, status |-> "pending", reads |-> <<>>, writes |-> <<>>,
     rows_written |-> NoRows, error |-> NoError, traceback |-> FALSE]

\* no subprocess exists
NoChild ==
    [alive |-> FALSE, reads |-> <<>>, writes |-> <<>>, rows_written |-> NoRows]

\* local_state as the worker creates it in the subprocess
NewChild ==
    [alive |-> TRUE, reads |-> <<>>, writes |-> <<>>, rows_written |-> <<0>>]

\* str(e) of an exception raised by a node
NodeError == <<"Exception">>

\* f"Dependency {dep_id} failed"
DependencyError(dep_id) == <<"Dependency">> \o dep_id \o <<"failed">>

\* the `for dep in deps` loop of run, from position k of the list
RECURSIVE CheckDepsLoop(_, _, _, _)
CheckDepsLoop(st, task_id, deps, k) ==
    IF k > Len(deps) THEN st
    ELSE LET dep_id == FnToId[deps[k]]
         IN  IF st[dep_id].status # "done"
             THEN CheckDepsLoop(
                    [st EXCEPT ![task_id].status = "skipped",
                               ![task_id].error = DependencyError(dep_id)],
                    task_id, deps, k + 1)
             ELSE CheckDepsLoop(st, task_id, deps, k + 1)

\* ----------------------------------------------------------- snapshots
\* _overall_status with any() in place of all()
OverallStatusAnyDone(st) ==
    LET statuses == {st[id].status : id \in DOMAIN st}
    IN  IF "failed" \in statuses THEN "failed"
        ELSE IF "running" \in statuses THEN "running"
        ELSE IF \E s \in statuses : s = "done" THEN "done"
        ELSE "pending"

\* DAG._overall_status
OverallStatus(st) ==
    LET statuses == {st[id].status : id \in DOMAIN st}
    IN  IF "failed" \in statuses THEN "failed"
        ELSE IF "running" \in statuses THEN "running"
        ELSE IF \A s \in statuses : s = "done" THEN "done"
        ELSE "pending"

\* DAG.to_json (durations are not modelled)
ToJson(n, st) ==
    [nodes  |-> st,
     edges  |-> UNION {{<<FnToId[n[fn][k]], FnToId[fn]>> :
                            k \in 1..Len(n[fn])} : fn \in Fns},
     status |-> OverallStatus(st)]


\* ------------------------------------------------------------------- Init
\* the state DAG.__init__ leaves, apart from the mapping
NewDag ==
    /\ state = [id \in TaskIds |-> InitialTaskState(id)]
    /\ pc = "idle"
    /\ order = <<>>
    /\ idx = 0
    /\ isolate = FALSE
    /\ targets = {}
    /\ checkpoints = <<>>
    /\ current_task = None
    /\ exception = NoException
    /\ called = {}
    /\ marked = {}
    /\ child_state = NoChild
    /\ track_calls = 0

\* RUN_ID is not in the environment
Absent == "absent"

\* process.wait() has not returned; <<n>> is the exit code n
NoExitCode == <<>>

\* there is no error.json
NoErrorLog ==
    [written |-> FALSE, exit_code |-> 0, error_type |-> "", message |-> <<>>,
     run_id |-> ""]

\* Popen has not been called: no environment was given to a child
NoChildEnv == [RUN_ID |-> Absent, LOG_DIR |-> ""]

\* main has done nothing yet: no child process, no handler, no profiler
\* thread, nothing written
NothingStarted ==
    /\ run_id = ""
    /\ exit_code = NoExitCode
    /\ error_log = NoErrorLog
    /\ log_files = {}
    /\ upload_attempts = <<>>
    /\ sup_exit = NoExitCode
    /\ child = "none"
    /\ child_code = NoExitCode
    /\ child_env = NoChildEnv
    /\ handler_installed = FALSE
    /\ term_sent = FALSE
    /\ kill_sent = FALSE
    /\ exited_in_grace = FALSE
    /\ prof_pc = "unstarted"
    /\ stop_flag = FALSE
    /\ prof_error = "none"
    /\ descendants = {}
    /\ last_sample = {}
    /\ last_excluded = {}

\* the functions of the mapping are the ones FnModule and FnName describe,
\* __init__ is over and run was not called
Constructed ==
    /\ second_run = FALSE
    /\ fn_module = [fn \in Fns |-> FnModule(fn)]
    /\ fn_name = [fn \in Fns |-> FnName(fn)]
    /\ init_pc = "done"
    /\ fn_to_id = FnToId
    /\ new_state = [id \in TaskIds |-> "pending"]

\* the pipeline is run directly, not under runner.main
NoSupervisor ==
    /\ sup_pc = "absent"
    /\ env_run_id = Absent
    /\ cloud_mode = FALSE
    /\ NothingStarted

\* a DAG just constructed from a node mapping; run has not been called
Init ==
    /\ nodes \in [Fns -> DepLists]
    /\ log_dir \in BOOLEAN
    /\ NewDag
    /\ Constructed
    /\ NoSupervisor

\* the function the run loop is at
CurrentFn == order[idx]
CurrentId == FnToId[CurrentFn]

\* ---------------------------------------------------------------- DAG.run
\* run(isolate, targets) is called on a mapping that _topological_order
\* accepts: `order = self._topological_order()`
CallRun ==
    /\ pc = "idle"
    /\ TopologicalOrder(nodes).ok
    /\ \E iso \in BOOLEAN, tg \in TargetChoices :
          /\ isolate' = iso
          /\ targets' = tg
    /\ order' = TopologicalOrder(nodes).order
    /\ pc' = "filter"
    /\ UNCHANGED <<runnerVars, ctorVars, second_run,
                   track_calls, child_state, nodes,
                   state, idx, log_dir, checkpoints, current_task,
                   exception, called, marked>>

\* run is called and _topological_order raises ValueError("Cycle detected
\* in DAG"); the frame of run with its arguments is gone
CallRunCycleError ==
    /\ pc = "idle"
    /\ ~TopologicalOrder(nodes).ok
    /\ pc' = "raised"
    /\ exception' = "ValueError"
    /\ UNCHANGED <<runnerVars, ctorVars, second_run,
                   track_calls, child_state, nodes,
                   state, order, idx, isolate, targets, log_dir,
                   checkpoints, current_task, called, marked>>

\* FilterTargets leaving the order reversed for the loop
FilterTargetsReversed ==
    /\ pc = "filter"
    /\ LET filtered == IF targets # {} THEN SelectTargets(order, targets)
                       ELSE order
       IN  /\ order' = [k \in 1..Len(filtered) |->
                            filtered[Len(filtered) + 1 - k]]
           /\ IF filtered = <<>>
              THEN pc' = "returned" /\ idx' = idx
              ELSE pc' = "check" /\ idx' = 1
    /\ UNCHANGED <<runnerVars, ctorVars, second_run,
                   track_calls, child_state, nodes,
                   state, isolate, targets, log_dir, checkpoints,
                   current_task, exception, called, marked>>

\* `if targets:` ... the early return when nothing matches
FilterTargets ==
    /\ pc = "filter"
    /\ LET filtered == IF targets # {} THEN SelectTargets(order, targets)
                       ELSE order
       IN  /\ order' = filtered
           /\ IF filtered = <<>>
              THEN pc' = "returned" /\ idx' = idx
              ELSE pc' = "check" /\ idx' = 1
    /\ UNCHANGED <<runnerVars, ctorVars, second_run,
                   track_calls, child_state, nodes,
                   state, isolate, targets, log_dir, checkpoints,
                   current_task, exception, called, marked>>

\* top of the loop body: the dependency check; control then falls through
\* to the `print` and `_run_task` below it
CheckDeps ==
    /\ pc = "check"
    /\ state' = CheckDepsLoop(state, CurrentId, nodes[CurrentFn], 1)
    /\ marked' = IF \E k \in 1..Len(nodes[CurrentFn]) :
                       state[FnToId[nodes[CurrentFn][k]]].status # "done"
                 THEN marked \cup {CurrentFn} ELSE marked
    /\ pc' = "start"
    /\ UNCHANGED <<runnerVars, ctorVars, second_run,
                   track_calls, child_state, nodes,
                   order, idx, isolate, targets, log_dir,
                   checkpoints, current_task, exception, called>>

\* StartTask with a subprocess that is started and not joined: run goes on
\* with the next node
StartTaskNoJoin ==
    /\ pc = "start"
    /\ state' = [state EXCEPT ![CurrentId].status = "running"]
    /\ called' = called \cup {CurrentFn}
    /\ IF isolate
       THEN /\ pc' = IF idx < Len(order) THEN "check" ELSE "returned"
            /\ idx' = IF idx < Len(order) THEN idx + 1 ELSE idx
            /\ current_task' = current_task
            /\ child_state' = NewChild
       ELSE /\ pc' = "inline"
            /\ idx' = idx
            /\ current_task' = CurrentId
            /\ child_state' = child_state
    /\ UNCHANGED <<runnerVars, ctorVars, second_run,
                   track_calls, nodes,
                   order, isolate, targets, log_dir,
                   checkpoints, exception, marked>>

\* _run_task up to the call of the function: in the current process
\* (_run_inline binds _current_task) or in a started subprocess
StartTask ==
    /\ pc = "start"
    /\ state' = [state EXCEPT ![CurrentId].status = "running"]
    /\ called' = called \cup {CurrentFn}
    /\ IF isolate
       THEN /\ pc' = "subprocess"
            /\ current_task' = current_task
            /\ child_state' = NewChild
       ELSE /\ pc' = "inline"
            /\ current_task' = CurrentId
            /\ child_state' = child_state
    /\ UNCHANGED <<runnerVars, ctorVars, second_run,
                   track_calls, nodes,
                   order, idx, isolate, targets, log_dir,
                   checkpoints, exception, marked>>

\* _run_inline without `_current_task.set(None)` in the finally block
InlineReturnsKeepsBinding ==
    /\ pc = "inline"
    /\ state' = [state EXCEPT ![CurrentId].status = "done"]
    /\ pc' = "save"
    /\ UNCHANGED <<runnerVars, ctorVars, second_run,
                   track_calls, child_state, nodes,
                   order, idx, isolate, targets, log_dir, current_task,
                   checkpoints, exception, called, marked>>

\* _run_inline: fn() returns
InlineReturns ==
    /\ pc = "inline"
    /\ state' = [state EXCEPT ![CurrentId].status = "done"]
    /\ current_task' = None
    /\ pc' = "save"
    /\ UNCHANGED <<runnerVars, ctorVars, second_run,
                   track_calls, child_state, nodes,
                   order, idx, isolate, targets, log_dir,
                   checkpoints, exception, called, marked>>

\* _run_inline without the `except Exception` clause: the error leaves run
InlineRaisesPropagates ==
    /\ pc = "inline"
    /\ current_task' = None
    /\ pc' = "raised"
    /\ exception' = "Exception"
    /\ UNCHANGED <<runnerVars, ctorVars, second_run,
                   track_calls, child_state, nodes,
                   state, order, idx, isolate, targets, log_dir,
                   checkpoints, called, marked>>

\* _run_inline: fn() raises an Exception
InlineRaises ==
    /\ pc = "inline"
    /\ state' = [state EXCEPT ![CurrentId].status = "failed",
                              ![CurrentId].error = NodeError,
                              ![CurrentId].traceback = TRUE]
    /\ current_task' = None
    /\ pc' = "save"
    /\ UNCHANGED <<runnerVars, ctorVars, second_run,
                   track_calls, child_state, nodes,
                   order, idx, isolate, targets, log_dir,
                   checkpoints, exception, called, marked>>

\* _run_inline: fn() raises a BaseException that is not an Exception
\* (KeyboardInterrupt, SystemExit): only the `finally` block runs and the
\* exception leaves run
InlineInterrupted ==
    /\ pc = "inline"
    /\ current_task' = None
    /\ pc' = "raised"
    /\ exception' = "BaseException"
    /\ UNCHANGED <<runnerVars, ctorVars, second_run,
                   track_calls, child_state, nodes,
                   state, order, idx, isolate, targets, log_dir,
                   checkpoints, called, marked>>

\* ChildReportsDone taking only the status from the child's result
ChildReportsDoneStatusOnly ==
    /\ pc = "subprocess"
    /\ state' = [state EXCEPT ![CurrentId].status = "done"]
    /\ child_state' = NoChild
    /\ pc' = "save"
    /\ UNCHANGED <<runnerVars, ctorVars, second_run,
                   track_calls, nodes,
                   order, idx, isolate, targets, log_dir,
                   checkpoints, current_task, exception, called, marked>>

\* ChildReportsDone in a run that goes to the next node without calling
\* save_state
ChildReportsDoneNoCheckpoint ==
    /\ pc = "subprocess"
    /\ state' = [state EXCEPT ![CurrentId].status = "done",
                              ![CurrentId].reads = child_state.reads,
                              ![CurrentId].writes = child_state.writes,
                              ![CurrentId].rows_written =
                                    child_state.rows_written]
    /\ child_state' = NoChild
    /\ pc' = IF idx < Len(order) THEN "check" ELSE "returned"
    /\ idx' = IF idx < Len(order) THEN idx + 1 ELSE idx
    /\ UNCHANGED <<runnerVars, ctorVars, second_run,
                   track_calls, nodes,
                   order, isolate, targets, log_dir,
                   checkpoints, current_task, exception, called, marked>>

\* _run_in_subprocess: the worker puts a "done" result on the queue, the
\* parent joins it, gets the result and updates the task state
ChildReportsDone ==
    /\ pc = "subprocess"
    /\ state' = [state EXCEPT ![CurrentId].status = "done",
                              ![CurrentId].reads = child_state.reads,
                              ![CurrentId].writes = child_state.writes,
                              ![CurrentId].rows_written =
                                    child_state.rows_written]
    /\ child_state' = NoChild
    /\ pc' = "save"
    /\ UNCHANGED <<runnerVars, ctorVars, second_run,
                   track_calls, nodes,
                   order, idx, isolate, targets, log_dir,
                   checkpoints, current_task, exception, called, marked>>

\* _run_in_subprocess: the worker catches an Exception and puts a "failed"
\* result on the queue
ChildReportsFailed ==
    /\ pc = "subprocess"
    /\ state' = [state EXCEPT ![CurrentId].status = "failed",
                              ![CurrentId].error = NodeError,
                              ![CurrentId].traceback = TRUE]
    /\ child_state' = NoChild
    /\ pc' = "save"
    /\ UNCHANGED <<runnerVars, ctorVars, second_run,
                   track_calls, nodes,
                   order, idx, isolate, targets, log_dir,
                   checkpoints, current_task, exception, called, marked>>

\* _run_in_subprocess: the child process dies without putting a result;
\* join returns and the parent's queue.get() never does
ChildDies ==
    /\ pc = "subprocess"
    /\ pc' = "blocked"
    /\ child_state' = NoChild
    /\ UNCHANGED <<runnerVars, ctorVars, second_run,
                   track_calls, nodes,
                   state, order, idx, isolate, targets, log_dir,
                   checkpoints, current_task, exception, called, marked>>

\* AfterTask sending a failed node back to _run_task
AfterTaskRetry(status, i, ord) ==
    IF status = "done" /\ i < Len(ord) THEN "check"
    ELSE IF status = "failed" THEN "start" ELSE "returned"

\* AfterTask without the `break`
AfterTaskNoBreak(status, i, ord) ==
    IF i < Len(ord) THEN "check" ELSE "returned"

\* AfterTask with the test on the result inverted
AfterTaskInverted(status, i, ord) ==
    IF status # "done" /\ i < Len(ord) THEN "check" ELSE "returned"

\* where run goes after the checkpoint: the next node, or out of the loop
\* at the end of `order` and on `break`
AfterTask(status, i, ord) ==
    IF status = "done" /\ i < Len(ord) THEN "check" ELSE "returned"

\* SaveState with the checkpoint written only after a node that ended done
SaveStateOnlyOnSuccess(write_ok) ==
    /\ pc = "save"
    /\ IF log_dir /\ ~write_ok
       THEN /\ pc' = "raised"
            /\ exception' = "OSError"
            /\ UNCHANGED <<checkpoints, idx>>
       ELSE /\ checkpoints' = IF log_dir /\ state[CurrentId].status = "done"
                              THEN Append(checkpoints, ToJson(nodes, state))
                              ELSE checkpoints
            /\ pc' = AfterTask(state[CurrentId].status, idx, order)
            /\ idx' = IF pc' = "check" THEN idx + 1 ELSE idx
            /\ exception' = exception
    /\ UNCHANGED <<runnerVars, ctorVars, second_run,
                   track_calls, child_state, nodes,
                   state, order, isolate, targets, log_dir,
                   current_task, called, marked>>

\* SaveState without the `if not log_dir: return`: Path(None) raises
SaveStateNoLogDirTest(write_ok) ==
    /\ pc = "save"
    /\ IF ~log_dir \/ ~write_ok
       THEN /\ pc' = "raised"
            /\ exception' = IF log_dir THEN "OSError" ELSE "TypeError"
            /\ UNCHANGED <<checkpoints, idx>>
       ELSE /\ checkpoints' = Append(checkpoints, ToJson(nodes, state))
            /\ pc' = AfterTask(state[CurrentId].status, idx, order)
            /\ idx' = IF pc' = "check" THEN idx + 1 ELSE idx
            /\ exception' = exception
    /\ UNCHANGED <<runnerVars, ctorVars, second_run,
                   track_calls, child_state, nodes,
                   state, order, isolate, targets, log_dir,
                   current_task, called, marked>>

\* save_state as run calls it after _run_task, then the if/else on the
\* result; write_ok is whether path.write_text succeeds
SaveState(write_ok) ==
    /\ pc = "save"
    /\ IF log_dir /\ ~write_ok
       THEN /\ pc' = "raised"
            /\ exception' = "OSError"
            /\ UNCHANGED <<checkpoints, idx>>
       ELSE /\ checkpoints' = IF log_dir
                              THEN Append(checkpoints, ToJson(nodes, state))
                              ELSE checkpoints
            /\ pc' = AfterTask(state[CurrentId].status, idx, order)
            /\ idx' = IF pc' = "check" THEN idx + 1 ELSE idx
            /\ exception' = exception
    /\ UNCHANGED <<runnerVars, ctorVars, second_run,
                   track_calls, child_state, nodes,
                   state, order, isolate, targets, log_dir,
                   current_task, called, marked>>

Next ==
    \/ CallRun
    \/ CallRunCycleError
    \/ FilterTargets
    \/ CheckDeps
    \/ StartTask
    \/ InlineReturns
    \/ InlineRaises
    \/ InlineInterrupted
    \/ ChildReportsDone
    \/ ChildReportsFailed
    \/ ChildDies
    \/ \E write_ok \in BOOLEAN : SaveState(write_ok)

Spec == Init /\ [][Next]_vars

\* ------------------------------------------------- track_read, track_write
\* the asset names passed to the tracking functions
Assets == {"raw/wdi"}

\* the rows arguments of track_write: 0 stands for None and for 0
RowCounts == {0, 1}

\* code that can call a tracking function is running: the node's function
\* (in this process or in the subprocess) or the caller, outside run
TrackingCallPossible ==
    /\ track_calls < MaxTrack
    /\ pc \in {"idle", "inline", "subprocess", "returned", "raised"}

\* task["reads"].append(asset)
AppendRead(task, asset) == [task EXCEPT !.reads = Append(@, asset)]

\* task["writes"].append(asset) and the `if rows:` update of rows_written
AppendWrite(task, asset, rows) ==
    [task EXCEPT !.writes = Append(@, asset),
                 !.rows_written =
                    IF rows # 0
                    THEN <<(IF @ = NoRows THEN 0 ELSE @[1]) + rows>>
                    ELSE @]

\* track_read without the `if task is not None` test: None["reads"] raises
TrackReadNoNoneTest(asset) ==
    /\ TrackingCallPossible
    /\ track_calls' = track_calls + 1
    /\ IF pc = "subprocess"
       THEN /\ child_state' = AppendRead(child_state, asset)
            /\ UNCHANGED <<state, pc, exception>>
       ELSE IF current_task # None
       THEN /\ state' = [state EXCEPT
                            ![current_task] = AppendRead(@, asset)]
            /\ UNCHANGED <<child_state, pc, exception>>
       ELSE /\ pc' = "raised"
            /\ exception' = "TypeError"
            /\ UNCHANGED <<state, child_state>>
    /\ UNCHANGED <<runnerVars, ctorVars, second_run,
                   nodes, order, idx, isolate, targets, log_dir,
                   checkpoints, current_task, called, marked>>

\* track_read(asset), called in the subprocess (the worker bound
\* _current_task to its local_state) or in the process of run
TrackRead(asset) ==
    /\ TrackingCallPossible
    /\ track_calls' = track_calls + 1
    /\ IF pc = "subprocess"
       THEN /\ child_state' = AppendRead(child_state, asset)
            /\ state' = state
       ELSE /\ state' = IF current_task # None
                        THEN [state EXCEPT
                                ![current_task] = AppendRead(@, asset)]
                        ELSE state
            /\ child_state' = child_state
    /\ UNCHANGED <<runnerVars, ctorVars, second_run,
                   nodes, pc, order, idx, isolate, targets, log_dir,
                   checkpoints, current_task, exception, called, marked>>

\* track_write(asset, rows), called in the subprocess or in the process of
\* run
TrackWrite(asset, rows) ==
    /\ TrackingCallPossible
    /\ track_calls' = track_calls + 1
    /\ IF pc = "subprocess"
       THEN /\ child_state' = AppendWrite(child_state, asset, rows)
            /\ state' = state
       ELSE /\ state' = IF current_task # None
                        THEN [state EXCEPT
                                ![current_task] = AppendWrite(@, asset, rows)]
                        ELSE state
            /\ child_state' = child_state
    /\ UNCHANGED <<runnerVars, ctorVars, second_run,
                   nodes, pc, order, idx, isolate, targets, log_dir,
                   checkpoints, current_task, exception, called, marked>>

\* node mappings in which a function depends on nothing or on the function
\* inserted just before it (the first one: on nothing or on itself)
TrackGraphs ==
    {n \in [Fns -> DepLists] :
        \A fn \in Fns :
            n[fn] \in {<<>>, <<IF fn = 1 THEN 1 ELSE fn - 1>>}}

\* a DAG just constructed from one of these mappings
InitTrack ==
    /\ Init
    /\ nodes \in TrackGraphs

NextTrack ==
    \/ Next
    \/ \E asset \in Assets : TrackRead(asset)
    \/ \E asset \in Assets, rows \in RowCounts : TrackWrite(asset, rows)

\* runs of a DAG whose nodes, and whose caller, track reads and writes
SpecTrack == InitTrack /\ [][NextTrack]_vars

\* ------------------------------------------------- run called once more
\* run is called again on the same instance, with the same arguments,
\* after the first call returned or raised: run computes the order and goes
\* through the loop as before; neither run nor _run_task resets self.state
CallRunAgain ==
    /\ pc \in {"returned", "raised"}
    /\ ~second_run
    /\ TopologicalOrder(nodes).ok
    /\ second_run' = TRUE
    /\ order' = TopologicalOrder(nodes).order
    /\ pc' = "filter"
    /\ exception' = NoException
    /\ called' = {}
    /\ marked' = {}
    /\ UNCHANGED <<runnerVars, ctorVars, track_calls, child_state, nodes,
                   state, idx, isolate, targets, log_dir, checkpoints,
                   current_task>>

NextRerun ==
    \/ NextTrack
    \/ CallRunAgain

\* two calls of run on one DAG whose nodes track reads and writes
SpecRerun == InitTrack /\ [][NextRerun]_vars

\* ----------------------------------------------------------- DAG.__init__
\* values of fn.__module__ and fn.__name__ of functions given as nodes
Modules == {<<"src", "nodes", "ingest">>, <<"nodes", "ingest">>,
            <<"__main__">>}
Names == {"run", "<lambda>"}

\* DAG(nodes) is about to be called on a mapping whose keys are NumNodes
\* different functions, none depending on another
InitIds ==
    /\ nodes = [fn \in Fns |-> <<>>]
    /\ log_dir = FALSE
    /\ NewDag
    /\ NoSupervisor
    /\ second_run = FALSE
    /\ fn_module \in [Fns -> Modules]
    /\ fn_name \in [Fns -> Names]
    /\ init_pc = "new"
    /\ fn_to_id = <<>>
    /\ new_state = <<>>

\* __init__: the loop `for fn in nodes` fills self._fn_to_id and self.state,
\* a later function with the id of an earlier one taking over its entry
Construct ==
    /\ init_pc = "new"
    /\ init_pc' = "done"
    /\ fn_to_id' = [fn \in Fns |-> TaskIdOf(fn_module[fn], fn_name[fn])]
    /\ new_state' = [id \in {TaskIdOf(fn_module[fn], fn_name[fn]) :
                               fn \in Fns} |-> "pending"]
    /\ UNCHANGED <<nodes, state, pc, order, idx, isolate, targets, log_dir,
                   checkpoints, current_task, exception, called, marked,
                   child_state, track_calls, second_run, fn_module,
                   fn_name, runnerVars>>

\* _run_task and what follows it set the status of fn:
\* `self.state[self._fn_to_id[fn]]["status"] = status`
SetStatus(fn, status) ==
    /\ init_pc = "done"
    /\ new_state' = [new_state EXCEPT ![fn_to_id[fn]] = status]
    /\ UNCHANGED <<nodes, state, pc, order, idx, isolate, targets, log_dir,
                   checkpoints, current_task, exception, called, marked,
                   child_state, track_calls, second_run, fn_module,
                   fn_name, init_pc, fn_to_id, runnerVars>>

NextIds ==
    \/ Construct
    \/ \E fn \in Fns, status \in {"running", "done", "failed"} :
          SetStatus(fn, status)

\* construction of a DAG from any functions, then status changes
SpecIds == InitIds /\ [][NextIds]_vars

\* ------------------------------------------------------------ runner.main
\* values process.wait() returns: exit codes of the child, and -N for a
\* child killed by signal N
ExitCodes == {0, 1, 137, 143, -9, -15}

\* processes the pipeline process may start (isolated nodes)
Descendants == {"worker1", "worker2"}

\* the error_type in the if/elif chain of main that does not tell 137
\* from 143
ErrorTypeAnySignalOOM(code) ==
    IF code = 137 \/ code = 143 THEN "OOM" ELSE "Error"

\* the error_type main passes to write_error_log for a non-zero exit code
ErrorType(code) ==
    IF code = 137 THEN "OOM"
    ELSE IF code = 143 THEN "SIGTERM"
    ELSE "Error"

\* the message main passes to write_error_log
ErrorMessage(code) ==
    IF code = 137 THEN <<"Process killed by OOM killer (SIGKILL)">>
    ELSE IF code = 143 THEN <<"Process terminated by signal">>
    ELSE <<"Process exited with code", code>>

\* write_error_log: the document written to error.json
ErrorSummary(code, error_type, message) ==
    [written |-> TRUE, exit_code |-> code, error_type |-> error_type,
     message |-> message,
     run_id |-> IF env_run_id = Absent THEN "unknown" ELSE env_run_id]

\* `if is_cloud_mode(): upload_logs(...)` only after a successful run
AfterClassifyOnlyOnSuccess(cloud, code) ==
    IF cloud /\ code = 0 THEN "upload" ELSE "exit"

\* `if is_cloud_mode(): upload_logs(...)`, then sys.exit
AfterClassify(cloud, code) ==
    IF cloud THEN "upload" ELSE "exit"

\* the status a process that calls sys.exit(code) ends with: the low eight
\* bits of code
ExitStatus(code) == code % 256

\* runner.main is started by the scheduler
InitRunner ==
    /\ nodes = [fn \in Fns |-> <<>>]
    /\ log_dir = TRUE
    /\ NewDag
    /\ Constructed
    /\ sup_pc = "init"
    /\ env_run_id \in {Absent, "run-42"}
    /\ cloud_mode \in BOOLEAN
    /\ NothingStarted

\* the supervisor process exists
SupervisorAlive == sup_pc \notin {"absent", "killed", "exited"}

\* main from the run id to profiler.start(): the log directory named after
\* run_id, LOG_DIR set in os.environ, the child given a copy of os.environ
\* (RUN_ID is in it only if it was supplied), the profiler thread started
SupervisorStart ==
    /\ sup_pc = "init"
    /\ run_id' = IF env_run_id = Absent THEN "generated" ELSE env_run_id
    /\ log_files' = {}
    /\ child' = "running"
    /\ child_env' = [RUN_ID |-> env_run_id, LOG_DIR |-> run_id']
    /\ prof_pc' = "starting"
    /\ sup_pc' = "spawned"
    /\ UNCHANGED <<dagVars, env_run_id, cloud_mode, exit_code, error_log,
                   upload_attempts, sup_exit, child_code, handler_installed,
                   term_sent, kill_sent, exited_in_grace, descendants,
                   stop_flag, prof_error, last_sample,
                   last_excluded>>

\* signal.signal(signal.SIGTERM, handle_sigterm)
InstallHandler ==
    /\ sup_pc = "spawned"
    /\ handler_installed' = TRUE
    /\ sup_pc' = "installed"
    /\ UNCHANGED <<dagVars, env_run_id, cloud_mode, mainVars, profVars,
                   child, child_code, child_env, term_sent, kill_sent,
                   exited_in_grace, descendants>>

\* main enters process.wait(), which holds the Popen object's wait lock
\* while it blocks
EnterWait ==
    /\ sup_pc = "installed"
    /\ sup_pc' = "waiting"
    /\ UNCHANGED <<dagVars, env_run_id, cloud_mode, mainVars, profVars,
                   childVars>>

\* main is between Popen and the return of process.wait()
ChildSupervised == sup_pc \in {"spawned", "installed", "waiting"}

\* the pipeline process writes a checkpoint into LOG_DIR
PipelineCheckpoints ==
    /\ ChildSupervised
    /\ child = "running"
    /\ "dag.json" \notin log_files
    /\ log_files' = log_files \cup {"dag.json"}
    /\ UNCHANGED <<dagVars, sup_pc, env_run_id, cloud_mode, run_id,
                   exit_code, error_log, upload_attempts, sup_exit,
                   profVars, childVars>>

\* the pipeline process starts a process of its own
DescendantStarts(d) ==
    /\ ChildSupervised
    /\ child = "running"
    /\ d \notin descendants
    /\ descendants' = descendants \cup {d}
    /\ UNCHANGED <<dagVars, sup_pc, env_run_id, cloud_mode, mainVars,
                   profVars, child, child_code, child_env,
                   handler_installed, term_sent, kill_sent, exited_in_grace>>

\* a process the pipeline started exits (it may outlive the pipeline
\* process)
DescendantExits(d) ==
    /\ sup_pc \in {"spawned", "installed", "waiting", "stopping", "joining"}
    /\ d \in descendants
    /\ descendants' = descendants \ {d}
    /\ UNCHANGED <<dagVars, sup_pc, env_run_id, cloud_mode, mainVars,
                   profVars, child, child_code, child_env,
                   handler_installed, term_sent, kill_sent, exited_in_grace>>

\* the pipeline process ends of its own accord or is killed from outside:
\* code is what process.wait() will return
PipelineExits(code) ==
    /\ ChildSupervised
    /\ child = "running"
    /\ child' = "dead"
    /\ child_code' = <<code>>
    /\ UNCHANGED <<dagVars, sup_pc, env_run_id, cloud_mode, mainVars,
                   profVars, child_env, handler_installed, term_sent,
                   kill_sent, exited_in_grace, descendants>>

\* SIGTERM reaches the supervisor before signal.signal was called: the
\* default action ends the supervisor; nothing is sent to the child
SigtermDefault ==
    /\ sup_pc \in {"init", "spawned"}
    /\ sup_pc' = "killed"
    /\ UNCHANGED <<dagVars, env_run_id, cloud_mode, mainVars, profVars,
                   childVars>>

\* SIGTERM reaches the supervisor after signal.signal: handle_sigterm.
\* process.terminate(), then process.wait(timeout=10), which can reap the
\* child only if main is not itself inside process.wait() (that call holds
\* the wait lock, so the handler's wait polls in vain and times out), then
\* process.kill() on TimeoutExpired. in_grace: the child exits within the
\* ten seconds; code: what it exits with then.
SigtermHandler(in_grace, code) ==
    /\ sup_pc \in {"installed", "waiting"}
    /\ handler_installed
    /\ LET was_running == child = "running"
           has_exited  == ~was_running \/ in_grace
           reaped      == sup_pc = "installed" /\ has_exited
       IN  /\ term_sent' = TRUE
           /\ exited_in_grace' = has_exited
           /\ kill_sent' = (kill_sent \/ ~reaped)
           /\ child' = IF reaped THEN "reaped" ELSE "dead"
           /\ child_code' = IF ~was_running THEN child_code
                            ELSE IF in_grace THEN <<code>> ELSE <<-9>>
    /\ UNCHANGED <<dagVars, sup_pc, env_run_id, cloud_mode, mainVars,
                   profVars, child_env, handler_installed, descendants>>

\* process.wait() returns what the child ended with
WaitReturns ==
    /\ sup_pc = "waiting"
    /\ child \in {"dead", "reaped"}
    /\ exit_code' = child_code
    /\ child' = "reaped"
    /\ sup_pc' = "stopping"
    /\ UNCHANGED <<dagVars, env_run_id, cloud_mode, run_id, error_log,
                   log_files, upload_attempts, sup_exit, profVars,
                   child_code, child_env, handler_installed, term_sent,
                   kill_sent, exited_in_grace, descendants>>

\* ------------------------------------------------ MemoryProfiler thread
\* _sample_loop up to the loop: `import psutil` (the thread returns when
\* it fails), psutil.Process(self.pid) (the thread returns on
\* NoSuchProcess, raised when the child is gone), the CSV header
ProfilerBegins(can_import) ==
    /\ SupervisorAlive
    /\ prof_pc = "starting"
    /\ IF ~can_import
       THEN prof_pc' = "ended" /\ UNCHANGED <<prof_error, log_files>>
       ELSE IF child = "reaped"
       THEN /\ prof_pc' = "ended"
            /\ prof_error' = "NoSuchProcess"
            /\ log_files' = log_files
       ELSE /\ prof_pc' = "loop"
            /\ prof_error' = prof_error
            /\ log_files' = log_files \cup {"memory.csv"}
    /\ UNCHANGED <<dagVars, sup_pc, env_run_id, cloud_mode, run_id,
                   exit_code, error_log, upload_attempts, sup_exit,
                   stop_flag, last_sample, last_excluded,
                   childVars>>

\* the results reading the supervised process can have: NoSuchProcess once
\* main has reaped it, and possibly while it is dead and not yet reaped
RootReads ==
    IF child = "running" THEN {"ok", "AccessDenied"}
    ELSE IF child = "dead" THEN {"ok", "NoSuchProcess"}
    ELSE {"NoSuchProcess"}

\* the processes process.children(recursive=True) lists: those of a dead
\* process have been given to another parent
Listed == IF child = "running" THEN descendants ELSE {}

\* ProfilerSample in which the error of a descendant that has exited is
\* not caught by the inner try and ends the loop
ProfilerSampleBreaksOnChild(root, gone) ==
    /\ SupervisorAlive
    /\ prof_pc = "loop"
    /\ ~stop_flag
    /\ root \in RootReads
    /\ gone \subseteq Listed
    /\ IF root = "ok" /\ gone = {}
       THEN /\ last_sample' = {"root"} \cup Listed
            /\ last_excluded' = gone
            /\ descendants' = descendants
            /\ UNCHANGED <<prof_pc, prof_error>>
       ELSE /\ prof_pc' = "ended"
            /\ prof_error' = IF root = "ok" THEN "NoSuchProcess" ELSE root
            /\ descendants' = descendants \ gone
            /\ UNCHANGED <<last_sample, last_excluded>>
    /\ UNCHANGED <<dagVars, sup_pc, env_run_id, cloud_mode, mainVars,
                   stop_flag, child, child_code, child_env,
                   handler_installed, term_sent, kill_sent, exited_in_grace>>

\* one turn of the `while not self._stop.is_set()` loop. root: the result
\* of reading the supervised process (an error leaves the loop by the outer
\* except's break); gone: the listed descendants that have exited when
\* they are read (the inner except passes over them); then a row is
\* appended and the thread waits for the interval
ProfilerSample(root, gone) ==
    /\ SupervisorAlive
    /\ prof_pc = "loop"
    /\ ~stop_flag
    /\ root \in RootReads
    /\ gone \subseteq Listed
    /\ IF root = "ok"
       THEN /\ last_sample' = {"root"} \cup (Listed \ gone)
            /\ last_excluded' = gone
            /\ descendants' = descendants \ gone
            /\ UNCHANGED <<prof_pc, prof_error>>
       ELSE /\ prof_pc' = "ended"
            /\ prof_error' = root
            /\ UNCHANGED <<last_sample, last_excluded, descendants>>
    /\ UNCHANGED <<dagVars, sup_pc, env_run_id, cloud_mode, mainVars,
                   stop_flag, child, child_code, child_env,
                   handler_installed, term_sent, kill_sent, exited_in_grace>>

\* a sampling call of the loop never returns
ProfilerStalls ==
    /\ SupervisorAlive
    /\ prof_pc = "loop"
    /\ ~stop_flag
    /\ prof_pc' = "stalled"
    /\ UNCHANGED <<dagVars, sup_pc, env_run_id, cloud_mode, mainVars,
                   stop_flag, prof_error, last_sample,
                   last_excluded, childVars>>

\* the sampling call that did not return returns after all: the rest of the
\* loop body runs, appending the row (ok) or leaving the loop on
\* NoSuchProcess for a supervised process that is gone
ProfilerResumes(ok) ==
    /\ SupervisorAlive
    /\ prof_pc = "stalled"
    /\ IF ok
       THEN /\ last_sample' = {"root"} \cup Listed
            /\ last_excluded' = {}
            /\ prof_pc' = "loop"
            /\ prof_error' = prof_error
       ELSE /\ child # "running"
            /\ prof_pc' = "ended"
            /\ prof_error' = "NoSuchProcess"
            /\ UNCHANGED <<last_sample, last_excluded>>
    /\ UNCHANGED <<dagVars, sup_pc, env_run_id, cloud_mode, mainVars,
                   stop_flag, childVars>>

\* the loop test finds the stop event set and _sample_loop returns
ProfilerLoopEnds ==
    /\ SupervisorAlive
    /\ prof_pc = "loop"
    /\ stop_flag
    /\ prof_pc' = "ended"
    /\ UNCHANGED <<dagVars, sup_pc, env_run_id, cloud_mode, mainVars,
                   stop_flag, prof_error, last_sample,
                   last_excluded, childVars>>

\* ----------------------------------------------------- MemoryProfiler.stop
\* stop: self._stop.set()
ProfilerStop ==
    /\ sup_pc = "stopping"
    /\ stop_flag' = TRUE
    /\ sup_pc' = "joining"
    /\ UNCHANGED <<dagVars, env_run_id, cloud_mode, mainVars, prof_pc,
                   prof_error, last_sample, last_excluded,
                   childVars>>

\* JoinReturns with self._thread.join() without a timeout
JoinReturnsNoTimeout ==
    /\ sup_pc = "joining"
    /\ prof_pc = "ended"
    /\ sup_pc' = "classify"
    /\ UNCHANGED <<dagVars, env_run_id, cloud_mode, mainVars, profVars,
                   childVars>>

\* stop: self._thread.join(timeout=2) returns, because the thread has ended
\* or because two seconds have passed (a thread that has not ended by then
\* is one held up in a sampling call)
JoinReturns ==
    /\ sup_pc = "joining"
    /\ prof_pc \in {"ended", "stalled"}
    /\ sup_pc' = "classify"
    /\ UNCHANGED <<dagVars, env_run_id, cloud_mode, mainVars, profVars,
                   childVars>>

\* ------------------------------------------------- main after the profiler
\* Classify that writes no error summary in the final else branch
ClassifyNoSummaryForOther ==
    /\ sup_pc = "classify"
    /\ LET code == exit_code[1]
       IN  /\ IF code = 137 \/ code = 143
              THEN /\ error_log' = ErrorSummary(code, ErrorType(code),
                                                ErrorMessage(code))
                   /\ log_files' = log_files \cup {"error.json"}
              ELSE UNCHANGED <<error_log, log_files>>
           /\ sup_pc' = AfterClassify(cloud_mode, code)
    /\ UNCHANGED <<dagVars, env_run_id, cloud_mode, run_id, exit_code,
                   upload_attempts, sup_exit, profVars, childVars>>

\* the if/elif chain on exit_code with its calls of write_error_log, and
\* the test of is_cloud_mode() after it
Classify ==
    /\ sup_pc = "classify"
    /\ LET code == exit_code[1]
       IN  /\ IF code = 0
              THEN UNCHANGED <<error_log, log_files>>
              ELSE /\ error_log' = ErrorSummary(code, ErrorType(code),
                                                ErrorMessage(code))
                   /\ log_files' = log_files \cup {"error.json"}
           /\ sup_pc' = AfterClassify(cloud_mode, code)
    /\ UNCHANGED <<dagVars, env_run_id, cloud_mode, run_id, exit_code,
                   upload_attempts, sup_exit, profVars, childVars>>

\* the files upload_logs has called upload_file for
Attempted == {upload_attempts[k].file : k \in 1..Len(upload_attempts)}

\* UploadFile without the try/except around upload_file: the exception
\* leaves upload_logs and main, and the supervisor exits with status 1
UploadFileRaises(file, ok) ==
    /\ sup_pc = "upload"
    /\ file \in log_files \ Attempted
    /\ upload_attempts' = Append(upload_attempts,
            [file |-> file, run_id |-> run_id, ok |-> ok])
    /\ IF ok THEN UNCHANGED <<sup_pc, sup_exit>>
       ELSE sup_pc' = "exited" /\ sup_exit' = <<1>>
    /\ UNCHANGED <<dagVars, env_run_id, cloud_mode, run_id,
                   exit_code, error_log, log_files, profVars,
                   childVars>>

\* upload_logs: one turn of the loop over the files of the log directory;
\* ok is whether upload_file returns or raises
UploadFile(file, ok) ==
    /\ sup_pc = "upload"
    /\ file \in log_files \ Attempted
    /\ upload_attempts' = Append(upload_attempts,
            [file |-> file, run_id |-> run_id, ok |-> ok])
    /\ UNCHANGED <<dagVars, sup_pc, env_run_id, cloud_mode, run_id,
                   exit_code, error_log, log_files, sup_exit, profVars,
                   childVars>>

\* upload_logs: the loop is over
UploadLogsReturns ==
    /\ sup_pc = "upload"
    /\ log_files \subseteq Attempted
    /\ sup_pc' = "exit"
    /\ UNCHANGED <<dagVars, env_run_id, cloud_mode, mainVars, profVars,
                   childVars>>

\* sys.exit(exit_code)
SupervisorExit ==
    /\ sup_pc = "exit"
    /\ sup_exit' = <<ExitStatus(exit_code[1])>>
    /\ sup_pc' = "exited"
    /\ UNCHANGED <<dagVars, env_run_id, cloud_mode, run_id, exit_code,
                   error_log, log_files, upload_attempts, profVars,
                   childVars>>

\* the steps of the main thread of the supervisor
MainStep ==
    \/ SupervisorStart
    \/ InstallHandler
    \/ EnterWait
    \/ WaitReturns
    \/ ProfilerStop
    \/ JoinReturns
    \/ Classify
    \/ \E file \in log_files, ok \in BOOLEAN : UploadFile(file, ok)
    \/ UploadLogsReturns
    \/ SupervisorExit

\* the steps of the profiler thread that finish in bounded time
ProfilerStep ==
    \/ \E can_import \in BOOLEAN : ProfilerBegins(can_import)
    \/ ProfilerLoopEnds

\* a supervised run that no signal disturbs and whose profiler takes no
\* sample: the steps of the two threads and of the pipeline process
NextRunner ==
    \/ MainStep
    \/ ProfilerStep
    \/ ProfilerStalls
    \/ \E ok \in BOOLEAN : ProfilerResumes(ok)
    \/ PipelineCheckpoints
    \/ \E code \in ExitCodes : PipelineExits(code)

\* a supervised run
SpecRunner == InitRunner /\ [][NextRunner]_vars

\* a supervised run in which the main thread and the profiler thread are
\* scheduled: a step of either that stays possible is taken
SpecRunnerLive ==
    SpecRunner /\ WF_vars(MainStep) /\ WF_vars(ProfilerStep)

\* a supervised run and SIGTERM sent to the supervisor
NextSignal ==
    \/ NextRunner
    \/ SigtermDefault
    \/ \E in_grace \in BOOLEAN, code \in ExitCodes \ {-9} :
          SigtermHandler(in_grace, code)

SpecSignal == InitRunner /\ [][NextSignal]_vars

\* a supervised run, the processes the pipeline starts and the samples of
\* the profiler
NextProfiler ==
    \/ NextRunner
    \/ \E root \in {"ok", "NoSuchProcess", "AccessDenied"},
          gone \in SUBSET Descendants : ProfilerSample(root, gone)
    \/ \E d \in Descendants : DescendantStarts(d)
    \/ \E d \in Descendants : DescendantExits(d)

SpecProfiler == InitRunner /\ [][NextProfiler]_vars

TypeOK ==
    /\ pc \in {"idle", "filter", "check", "start", "inline", "subprocess",
               "save", "returned", "raised", "blocked"}
    /\ DOMAIN state = TaskIds
    /\ \A id \in TaskIds :
          state[id].status \in {"pending", "running", "done", "failed",
                                "skipped"}
    /\ exception \in {NoException, "ValueError", "OSError", "BaseException"}
    /\ track_calls \in 0..MaxTrack
    /\ sup_pc \in {"absent", "init", "spawned", "installed", "waiting",
                   "stopping", "joining", "classify", "upload", "exit",
                   "exited", "killed"}
    /\ child \in {"none", "running", "dead", "reaped"}
    /\ prof_pc \in {"unstarted", "starting", "loop", "stalled", "ended"}
    /\ prof_error \in {"none", "NoSuchProcess", "AccessDenied"}
    /\ descendants \subseteq Descendants
    /\ log_files \subseteq {"dag.json", "memory.csv", "error.json"}


\* ------------------------------------------------------------ graph facts
\* b lists a among its dependencies
DependsOn(n, b, a) == \E k \in 1..Len(n[b]) : n[b][k] = a

\* S together with every function that depends on a member of S,
\* repeated k times
RECURSIVE DependentsClosure(_, _, _)
DependentsClosure(n, S, k) ==
    IF k = 0 THEN S
    ELSE DependentsClosure(n,
            S \cup {b \in Fns : \E a \in S : DependsOn(n, b, a)}, k - 1)

\* the functions that depend on a, directly or through other functions
TransitiveDependents(n, a) ==
    DependentsClosure(n, {b \in Fns : DependsOn(n, b, a)}, NumNodes)

Acyclic(n) == \A a \in Fns : a \notin TransitiveDependents(n, a)

\* ord holds every function exactly once, each after all its dependencies
IsTopological(ord, n) ==
    /\ Len(ord) = NumNodes
    /\ \A fn \in Fns : \E i \in 1..Len(ord) : ord[i] = fn
    /\ \A i, j \in 1..Len(ord) : DependsOn(n, ord[i], ord[j]) => j < i

AllPending == \A id \in TaskIds : state[id] = InitialTaskState(id)

\* ------------------------------------------------------------------ C1
\* C1: for every acyclic dependency mapping, _topological_order raises no
\* cycle error and the order it returns holds every node exactly once, each
\* node after all of its declared dependencies.
C1_TopologicalOrderValid ==
    Acyclic(nodes) =>
        /\ exception # "ValueError"
        /\ pc = "filter" => IsTopological(order, nodes)

\* an acyclic mapping with a node of two dependencies has been ordered, and
\* the order is not the insertion order
C1_Witness ==
    /\ pc = "filter"
    /\ Acyclic(nodes)
    /\ \E fn \in Fns : Len(nodes[fn]) = 2
    /\ \E i \in 1..Len(order) : order[i] # i

\* ------------------------------------------------------------------ C2
\* C2: for every dependency mapping with a cycle, once run has been called
\* it has failed with the cycle error, no function was called, every task
\* state is as constructed (pending) and no checkpoint was written.
C2_CycleRejectedBeforeExecution ==
    (~Acyclic(nodes) /\ pc # "idle") =>
        /\ pc = "raised"
        /\ exception = "ValueError"
        /\ called = {}
        /\ AllPending
        /\ checkpoints = <<>>

\* run was called on a mapping with a cycle that also has a node without
\* dependencies, with a log destination configured
C2_Witness ==
    /\ ~Acyclic(nodes)
    /\ \E fn \in Fns : nodes[fn] = <<>>
    /\ log_dir
    /\ pc = "raised"


\* ------------------------------------------------------------------ C3
\* C3: a node visited while one of its dependencies is not done is marked
\* skipped and never executed: its function is not called and its status
\* stays skipped.
C3_SkippedNeverExecuted ==
    \A fn \in marked :
        /\ fn \notin called
        /\ state[FnToId[fn]].status = "skipped"

\* ------------------------------------------------------------------ C4
StatusOf(fn) == state[FnToId[fn]].status
StatusOfCurrent == StatusOf(order[idx])

C5_FailFast ==
    [][(\E id \in TaskIds : state[id].status = "failed") =>
          /\ called' = called
          /\ \A id \in TaskIds :
                state'[id].status = "running" => state[id].status = "running"
      ]_vars

\* run with isolate returned after a failure with nodes of the order left
\* over, one of them not depending on the failed node
C5_Witness ==
    /\ pc = "returned"
    /\ isolate
    /\ idx < Len(order)
    /\ StatusOf(order[idx]) = "failed"
    /\ \E k \in (idx + 1)..Len(order) :
          order[k] \notin TransitiveDependents(nodes, order[idx])

\* ------------------------------------------------------------------ C6
\* C6: run on a valid DAG with targets = [x], x the id of a node, visits
\* only that node, calls its function although its dependencies are not
\* done, and leaves every other task state pending as constructed.
C6_TargetRunsOnlyThatNode ==
    \A x \in Fns :
        (targets = {FnToId[x]} /\ Acyclic(nodes) /\ pc \notin {"idle", "filter"})
        => /\ order = <<x>>
           /\ called \subseteq {x}
           /\ \A y \in Fns \ {x} :
                 state[FnToId[y]] = InitialTaskState(FnToId[y])
           /\ pc = "returned" =>
                 /\ called = {x}
                 /\ StatusOf(x) \in {"done", "failed"}

\* a targeted run of a node that has a dependency returned: the node ran
\* and is done while its dependency never ran
C6_Witness ==
    /\ targets = {FnToId[2]}
    /\ DependsOn(nodes, 2, 1)
    /\ pc = "returned"
    /\ StatusOf(2) = "done"
    /\ StatusOf(1) = "pending"

\* ------------------------------------------------------------------ C7
\* no function has its id, its name or the last component of its module in
\* the targets
NoMatch(tg) ==
    \A fn \in Fns :
        /\ FnToId[fn] \notin tg
        /\ <<FnName(fn)>> \notin tg
        /\ <<FnModule(fn)[Len(FnModule(fn))]>> \notin tg

\* C7: when targets is non-empty and matches no node of a valid DAG, run
\* returns without an exception, calls no function, leaves every task state
\* as it was and writes no checkpoint.
C7_NoMatchIsNoOp ==
    (targets # {} /\ NoMatch(targets) /\ Acyclic(nodes)
        /\ pc \notin {"idle", "filter"})
    => /\ pc = "returned"
       /\ exception = NoException
       /\ called = {}
       /\ marked = {}
       /\ AllPending
       /\ checkpoints = <<>>

\* run returned for a target that matches nothing, with a log destination
C7_Witness ==
    /\ targets = {<<"nosuch">>}
    /\ log_dir
    /\ pc = "returned"

\* ------------------------------------------------------------------ C8
\* node attempts that have ended
Completed == {fn \in called : StatusOf(fn) \in {"done", "failed"}}

\* C8: with a log destination and no failing write, there is one checkpoint
\* per ended node attempt (the one for the node just ended is written in
\* the next step), and the k-th checkpoint records the k-th node of the
\* order with its final status, done or failed.
C8_CheckpointPerAttempt ==
    (log_dir /\ exception # "OSError") =>
        /\ Len(checkpoints) =
              Cardinality(Completed) - (IF pc = "save" THEN 1 ELSE 0)
        /\ \A k \in 1..Len(checkpoints) :
              /\ checkpoints[k].nodes[FnToId[order[k]]].status
                    \in {"done", "failed"}
              /\ checkpoints[k].nodes[FnToId[order[k]]].status
                    = StatusOf(order[k])

\* two nodes were attempted, the second failed, and both checkpoints exist
C8_Witness ==
    /\ log_dir
    /\ pc = "returned"
    /\ Len(checkpoints) = 2
    /\ checkpoints[1].nodes[FnToId[order[1]]].status = "done"
    /\ checkpoints[2].nodes[FnToId[order[2]]].status = "failed"

\* ------------------------------------------------------------------ C9
\* the aggregate status of snapshot j is the one its node statuses call for
SnapshotStatusCorrect(j) ==
    LET ss == {j.nodes[id].status : id \in DOMAIN j.nodes}
    IN  /\ j.status = "done" <=> \A s \in ss : s = "done"
        /\ j.status = "failed" <=> "failed" \in ss
        /\ j.status \notin {"done", "failed"} =>
              j.status = IF "running" \in ss THEN "running" ELSE "pending"

\* C9: in the snapshot to_json gives in any state, and in every checkpoint
\* written, the aggregate status is done iff every node is done, failed iff
\* some node is failed, else running if some node is running, else pending.
C9_AggregateStatus ==
    /\ SnapshotStatusCorrect(ToJson(nodes, state))
    /\ \A k \in 1..Len(checkpoints) : SnapshotStatusCorrect(checkpoints[k])

\* a node is running after another ended done and was checkpointed with
\* aggregate status pending
C9_Witness ==
    /\ pc = "inline"
    /\ Len(checkpoints) = 1
    /\ checkpoints[1].status = "pending"
    /\ ToJson(nodes, state).status = "running"
    /\ \E fn \in Fns : StatusOf(fn) = "done"

\* ------------------------------------------------------------------ C10
\* C10: a failing checkpoint write does not abort run: no exception of the
\* write leaves run.
C10_WriteFailureDoesNotAbort ==
    ~(pc = "raised" /\ exception = "OSError")


\* ------------------------------------------------------------------ C11
\* C11: without a log destination save_state writes nothing and raises
\* nothing, and the step of run that calls it goes on as it does after a
\* successful write: task states unchanged, on to the next node after a done
\* node, out of the loop at the end of the order or after a failed node.
C11_NoLogDirIsNoOp ==
    [][(pc = "save" /\ (~log_dir \/ exception' # "OSError")) =>
          /\ pc' = (IF StatusOfCurrent = "done" /\ idx < Len(order)
                    THEN "check" ELSE "returned")
          /\ state' = state
          /\ exception' = exception
          /\ ~log_dir => checkpoints' = <<>>
      ]_vars

\* a run of two nodes without a log destination returned with both done
C11_Witness ==
    /\ ~log_dir
    /\ pc = "returned"
    /\ checkpoints = <<>>
    /\ Cardinality({fn \in Fns : StatusOf(fn) = "done"}) >= 2

\* ------------------------------------------------------------------ C12
\* C12: with the inline strategy an Exception raised by a node never leaves
\* run: the node's status is failed with the error message and the traceback
\* recorded, and run goes on to its checkpoint and returns (only a failing
\* checkpoint write, C10, leaves run).
C12_InlineErrorContained ==
    /\ exception # "Exception"
    /\ \A fn \in Fns :
          (~isolate /\ StatusOf(fn) = "failed") =>
              /\ state[FnToId[fn]].error = NodeError
              /\ state[FnToId[fn]].traceback
              /\ \/ pc \in {"save", "returned"}
                 \/ pc = "raised" /\ exception = "OSError"

\* an inline run returned after a node raised
C12_Witness ==
    /\ ~isolate
    /\ pc = "returned"
    /\ exception = NoException
    /\ \E fn \in Fns :
          /\ StatusOf(fn) = "failed"
          /\ state[FnToId[fn]].error = NodeError
          /\ state[FnToId[fn]].traceback

\* ------------------------------------------------------------------ C13
\* C13: with the isolated strategy the parent never waits forever for the
\* result of a child that died without delivering one.
C13_ChildDeathDoesNotBlock ==
    pc # "blocked"

\* ------------------------------------------------------------------ C14
LifecycleSteps ==
    {<<"pending", "running">>, <<"running", "done">>,
     <<"running", "failed">>, <<"pending", "skipped">>}

\* C14: every change of a node's status is pending->running,
\* running->done, running->failed or pending->skipped.
C14_StatusLifecycle ==
    [][\A id \in TaskIds :
          state'[id].status # state[id].status =>
              <<state[id].status, state'[id].status>> \in LifecycleSteps
      ]_vars

\* ------------------------------------------------------------------ C15
\* C15: a task state carries an error or a traceback only when its status
\* is failed.
C15_ErrorOnlyWhenFailed ==
    \A id \in TaskIds :
        state[id].status # "failed" =>
            /\ state[id].error = NoError
            /\ ~state[id].traceback


\* ------------------------------------------------------------------ C16
\* a step that is a call of track_read or track_write
TrackingCall == track_calls' # track_calls

\* C16: a tracking call made in the process of run while no node is bound
\* to _current_task raises nothing and changes no task state (no reads, no
\* writes, no rows_written), nor the course of run.
C16_UnboundTrackingIsNoOp ==
    [][(TrackingCall /\ pc # "subprocess" /\ current_task = None) =>
          /\ state' = state
          /\ pc' = pc
          /\ exception' = exception
          /\ checkpoints' = checkpoints
      ]_vars

NothingTracked(fn) ==
    /\ state[FnToId[fn]].reads = <<>>
    /\ state[FnToId[fn]].writes = <<>>
    /\ state[FnToId[fn]].rows_written = NoRows

\* an inline run returned with a node done, all the tracking calls were made
\* outside a node, and no task state holds a read, a write or a row count
C16_Witness ==
    /\ ~isolate
    /\ pc = "returned"
    /\ exception = NoException
    /\ track_calls = MaxTrack
    /\ \E fn \in Fns : StatusOf(fn) = "done"
    /\ \A fn \in Fns : NothingTracked(fn)

\* ------------------------------------------------------------------ C17
\* C17: _current_task is bound to the node being executed exactly while
\* _run_inline executes it, and is unbound before and after, whether the
\* node returned or raised; a tracking call changes only the task state of
\* the bound node, which it does change, and changes nothing when no node
\* is bound.
C17_BindingFollowsNode ==
    /\ [](current_task = IF pc = "inline" THEN FnToId[order[idx]] ELSE None)
    /\ [][TrackingCall =>
            /\ \A id \in TaskIds :
                  id # current_task => state'[id] = state[id]
            /\ pc = "inline" =>
                  /\ state'[current_task] # state[current_task]
                  /\ state'[current_task].status = "running"
         ]_vars

\* an inline run returned after a node that tracked one read and a node that
\* tracked nothing, and one more tracking call was recorded nowhere
C17_Witness ==
    /\ ~isolate
    /\ pc = "returned"
    /\ track_calls = 2
    /\ \E fn, other \in Fns :
          /\ fn # other
          /\ StatusOf(fn) = "failed"
          /\ state[FnToId[fn]].reads = <<"raw/wdi">>
          /\ state[FnToId[fn]].writes = <<>>
          /\ StatusOf(other) = "done"
          /\ NothingTracked(other)
    /\ \A fn \in Fns : Len(state[FnToId[fn]].reads) <= 1


\* ------------------------------------------------------------------ C18
\* main is past the classification of the exit code
Classified == sup_pc \in {"upload", "exit", "exited"}

\* C18: once the exit code is classified, exit code 0 has left no error
\* record, 137 the record of class OOM, 143 the record of class SIGTERM and
\* any other value the record of class Error, each with the exit code as
\* process.wait() returned it.
C18_ExitCodeClassification ==
    Classified =>
        LET code == exit_code[1]
        IN  /\ code = 0 => error_log = NoErrorLog
            /\ code # 0 => error_log.written /\ error_log.exit_code = code
            /\ code = 137 => error_log.error_type = "OOM"
            /\ code = 143 => error_log.error_type = "SIGTERM"
            /\ code \notin {0, 137, 143} => error_log.error_type = "Error"

\* a child that ended with 143 was classified SIGTERM
C18_Witness ==
    /\ sup_pc = "exited"
    /\ exit_code = <<143>>
    /\ error_log.error_type = "SIGTERM"
    /\ error_log.exit_code = 143

\* ------------------------------------------------------------------ C19
\* C19: error.json is written if and only if the exit code is not zero,
\* never before the classification, and when it is written no upload has
\* been made yet and it is not written or changed once uploads have begun.
C19_ErrorSummaryIffNonZero ==
    /\ [](Classified => (error_log.written <=> exit_code[1] # 0))
    /\ [](~Classified => ~error_log.written /\ upload_attempts = <<>>)
    /\ [][upload_attempts' # <<>> => error_log' = error_log]_vars

\* the error summary of a failed run was written and then uploaded
C19_Witness ==
    /\ sup_pc = "exited"
    /\ exit_code = <<1>>
    /\ error_log.written
    /\ \E k \in 1..Len(upload_attempts) :
          upload_attempts[k].file = "error.json"

C21_ExitCodePreserved ==
    sup_pc = "exited" => sup_exit = exit_code

\* ------------------------------------------------------------------ C22
\* C22: handle_sigterm sends the forced kill only if the child has not
\* exited within the grace period.
C22_KillOnlyAfterGrace ==
    kill_sent => ~exited_in_grace

\* ------------------------------------------------------------------ C23
\* C23: there is no state in which the child is running, SIGTERM has come
\* to the supervisor and the child has not been asked to terminate.
C23_SignalAlwaysCascaded ==
    (sup_pc = "killed" /\ child = "running") => term_sent

\* ------------------------------------------------------------------ C24
\* C24: once the child is spawned, the run id that names the log directory
\* and the upload keys is the RUN_ID of the child's environment and the
\* run_id of the error summary.
C24_OneRunIdEverywhere ==
    child # "none" =>
        /\ child_env.LOG_DIR = run_id
        /\ child_env.RUN_ID = run_id
        /\ error_log.written => error_log.run_id = run_id
        /\ \A k \in 1..Len(upload_attempts) :
              upload_attempts[k].run_id = run_id

\* ------------------------------------------------------------------ C25
\* a process of the supervised tree is alive
TreeAlive == child = "running" \/ descendants # {}

\* C25 as stated: while stop is not signaled and a process of the tree is
\* alive, no exit of a process ends the sampling loop.
C25_ExitNeverEndsLoop ==
    [][(prof_pc = "loop" /\ ~stop_flag /\ TreeAlive)
          => ~(prof_pc' = "ended" /\ prof_error' = "NoSuchProcess")]_vars

\* C25 amended: a descendant that has exited when it is read is left out of
\* the row, which sums the supervised process and the other listed
\* descendants, and the loop goes on; the loop ends only when stop is
\* signaled or when the supervised process itself cannot be read, because
\* it has exited (NoSuchProcess) or access is denied.
C25_OnlyRootEndsLoop ==
    [][/\ (prof_pc = "loop" /\ prof_pc' = "ended")
            => \/ stop_flag
               \/ prof_error' = "NoSuchProcess" /\ child # "running"
               \/ prof_error' = "AccessDenied"
       /\ (last_sample' # last_sample \/ last_excluded' # last_excluded)
            => /\ prof_pc' = "loop"
               /\ last_excluded' \subseteq Listed
               /\ last_sample' = {"root"} \cup (Listed \ last_excluded')
               /\ descendants' \cap last_excluded' = {}]_vars

\* a row was written that leaves out worker1, which had exited, and sums
\* the supervised process and worker2, and the loop goes on
C25_Witness ==
    /\ prof_pc = "loop"
    /\ last_excluded = {"worker1"}
    /\ last_sample = {"root", "worker2"}

\* ------------------------------------------------------------------ C26
\* C26: once main calls profiler.stop(), stop returns and main reaches the
\* classification of the exit code, whatever the sampling thread does.
C26_StopAlwaysReturns ==
    (sup_pc \in {"stopping", "joining"}) ~> (sup_pc = "classify")

\* stop has returned although the sampling thread is stalled
C26_Witness ==
    /\ sup_pc = "classify"
    /\ stop_flag
    /\ prof_pc = "stalled"

\* ------------------------------------------------------------------ C27
\* the nodes whose status is running
Running == {fn \in Fns : StatusOf(fn) = "running"}

C28_SettledBeforeNextStarts ==
    [][\A fn \in Fns :
          (state'[FnToId[fn]].status = "running"
              /\ state[FnToId[fn]].status # "running")
          => /\ \A g \in called : StatusOf(g) \in {"done", "failed"}
             /\ log_dir =>
                   /\ Len(checkpoints) = Cardinality(called)
                   /\ \A k \in 1..Len(checkpoints) :
                         /\ order[k] \in called
                         /\ checkpoints[k].nodes[FnToId[order[k]]].status
                               = StatusOf(order[k])]_vars

\* with a log destination, the second node of the order is running and the
\* checkpoint of the first records it done
C28_Witness ==
    /\ log_dir
    /\ idx = 2
    /\ pc \in {"inline", "subprocess"}
    /\ StatusOfCurrent = "running"
    /\ Len(checkpoints) = 1
    /\ checkpoints[1].nodes[FnToId[order[1]]].status = "done"

\* ------------------------------------------------------------------ C29
\* the nodes emitted before position k of ord
EmittedBefore(ord, k) == {ord[j] : j \in 1..(k - 1)}

\* the nodes ready at step k: not emitted yet, every dependency emitted
ReadyAtStep(n, ord, k) ==
    {fn \in Fns \ EmittedBefore(ord, k) :
        \A d \in 1..Len(n[fn]) : n[fn][d] \in EmittedBefore(ord, k)}

\* the position in ord of the last emitted dependency of fn, 0 if fn has
\* none: the step at which fn becomes ready
ReadySince(n, ord, fn) ==
    LET ps == {j \in 1..Len(ord) : Contains(n[fn], ord[j])}
    IN  IF ps = {} THEN 0 ELSE CHOOSE j \in ps : \A i \in ps : i <= j

\* C29 as stated: at every step of the ordering the node emitted is, of the
\* nodes ready at that step, the first in the insertion order of the
\* mapping.
C29_FirstReadyByInsertion ==
    pc = "filter" =>
        \A k \in 1..Len(order) :
            \A fn \in ReadyAtStep(nodes, order, k) : order[k] <= fn

\* C29 amended: nodes are emitted in the order in which they become ready,
\* and nodes that become ready at the same step in the insertion order of
\* the mapping; this fixes the order for a mapping, and
\* {A: [], B: [A], C: [A]} gives A, B, C.
C29_ReadyQueueIsFifo ==
    pc = "filter" =>
        /\ \A i, j \in 1..Len(order) :
              i < j =>
                 LET ri == ReadySince(nodes, order, order[i])
                     rj == ReadySince(nodes, order, order[j])
                 IN  ri < rj \/ (ri = rj /\ order[i] < order[j])
        /\ nodes = <<<<>>, <<1>>, <<1>>>> => order = <<1, 2, 3>>

\* in {A: [], B: [A], C: []} C is emitted before B, which is ready at the
\* same step and precedes C in the mapping
C29_Witness ==
    /\ pc = "filter"
    /\ nodes = <<<<>>, <<1>>, <<>>>>
    /\ order = <<1, 3, 2>>

\* ------------------------------------------------------------------ C30
\* the nodes an entry of targets names: by the task id, by the module's
\* last component or by the function name
MatchedByAnyEntry ==
    {fn \in Fns : \/ FnToId[fn] \in targets
                  \/ <<ShortModule(FnToId[fn])>> \in targets
                  \/ <<FnName(fn)>> \in targets}

\* C30: with a non-empty targets list the nodes run selects are exactly the
\* nodes whose task id or short name is in targets.
C30_SelectedIffMatched ==
    (targets # {} /\ pc \notin {"idle", "filter"}) =>
        {order[k] : k \in 1..Len(order)} = MatchedByAnyEntry


\* ------------------------------------------------------------------ C31
\* C31: in the step in which the parent takes the child's result, the task
\* state of the node gets the reported status and, when it is done, exactly
\* the reads, writes and rows_written of the child; when it is failed, the
\* reported error and trace.
C31_ParentTakesChildResult ==
    [][(pc = "subprocess" /\ pc' = "save") =>
          LET new == state'[CurrentId]
          IN  /\ new.status \in {"done", "failed"}
              /\ new.status = "done" =>
                    /\ new.reads = child_state.reads
                    /\ new.writes = child_state.writes
                    /\ new.rows_written = child_state.rows_written
              /\ new.status = "failed" =>
                    /\ new.error = NodeError
                    /\ new.traceback]_vars

\* an isolated node ended done and its task state has the read and the
\* write with rows that were tracked in the child
C31_Witness ==
    /\ isolate
    /\ pc = "save"
    /\ StatusOfCurrent = "done"
    /\ state[CurrentId].reads = <<"raw/wdi">>
    /\ state[CurrentId].writes = <<"raw/wdi">>
    /\ state[CurrentId].rows_written = <<1>>

\* ------------------------------------------------------------------ C34
\* C34: an isolated node ends with the reads and writes it tracked, as an
\* inline node does (inline, the tracking calls append to the task state
\* itself, whether the node then succeeds or fails).
C34_IsolatedKeepsWhatInlineKeeps ==
    [][(isolate /\ pc = "subprocess" /\ pc' = "save") =>
          /\ state'[CurrentId].reads = child_state.reads
          /\ state'[CurrentId].writes = child_state.writes]_vars

\* ------------------------------------------------------------------ C37
\* C37: in a run without targets on a new DAG, the nodes that are not
\* pending are the first k nodes of the order for some k; the first k - 1
\* are done and the k-th is running, done or failed.
C37_NonPendingIsPrefix ==
    (targets = {} /\ pc \notin {"idle", "filter"}
                  /\ exception # "ValueError") =>
        /\ Len(order) = NumNodes
        /\ \E k \in 0..Len(order) :
              /\ \A j \in 1..Len(order) :
                    (StatusOf(order[j]) # "pending") <=> (j <= k)
              /\ \A j \in 1..(k - 1) : StatusOf(order[j]) = "done"
              /\ k > 0 => StatusOf(order[k]) \in
                              {"running", "done", "failed"}

\* the second node of the order has failed, the first is done and the
\* third is pending
C37_Witness ==
    /\ targets = {}
    /\ pc = "returned"
    /\ StatusOf(order[1]) = "done"
    /\ StatusOf(order[2]) = "failed"
    /\ StatusOf(order[3]) = "pending"

\* ------------------------------------------------------------------ C40
\* C40: a failed upload leaves upload_logs in its loop with the exit code
\* untouched; in cloud mode the supervisor exits having attempted every
\* file, failed uploads or not, and its exit status is the one
\* sys.exit(exit_code) gives.
C40_UploadFailureContained ==
    /\ [][(Len(upload_attempts') > Len(upload_attempts)
              /\ ~upload_attempts'[Len(upload_attempts')].ok)
          => /\ sup_pc' = "upload"
             /\ exit_code' = exit_code
             /\ sup_exit' = NoExitCode]_vars
    /\ [](sup_pc = "exited" =>
             /\ sup_exit = <<ExitStatus(exit_code[1])>>
             /\ cloud_mode => log_files \subseteq Attempted)

\* the first upload failed, a later one succeeded and the supervisor
\* exited with the child's exit code 0
C40_Witness ==
    /\ sup_pc = "exited"
    /\ Len(upload_attempts) = 2
    /\ ~upload_attempts[1].ok
    /\ upload_attempts[2].ok
    /\ exit_code = <<0>>
    /\ sup_exit = <<0>>


\* ------------------------------------------------------------------ C39
\* profiler.stop() has returned to main
StopReturned == sup_pc \in {"classify", "upload", "exit", "exited"}

\* C39: once MemoryProfiler.stop has returned, no row is appended to
\* memory.csv, in particular none while upload_logs runs.
C39_NoRowAfterStop ==
    [][StopReturned => last_sample' = last_sample]_vars


\* ------------------------------------------------------------------ C32
\* a pipeline run directly, or a supervisor at the entry of main
InitSystem == Init \/ InitRunner

\* DAG.run in a pipeline run directly; main and what surrounds it otherwise
NextSystem ==
    \/ sup_pc = "absent" /\ Next
    \/ NextRunner

SpecSystem == InitSystem /\ [][NextSystem]_vars

\* C32: nothing is retried. In one invocation of run a node is started at
\* most once (its function is called only if it was not called before in
\* this invocation), and a supervised run spawns the pipeline process once:
\* only at the entry of main, which is never entered again, whatever the
\* exit code of the pipeline.
C32_NothingRetried ==
    /\ [][\A fn \in Fns :
            (state[FnToId[fn]].status # "running"
               /\ state'[FnToId[fn]].status = "running")
            => (fn \notin called /\ fn \in called')]_vars
    /\ [][(child = "none" /\ child' # "none") => sup_pc = "init"]_vars
    /\ [][(sup_pc # "init") => (sup_pc' # "init")]_vars
    /\ [][(child # "none") => (child' # "none")]_vars

\* a run has returned after a node failed, every called node called once
C32_Witness ==
    /\ pc = "returned"
    /\ \E fn \in called : state[FnToId[fn]].status = "failed"


\* ------------------------------------------------------------------ C38
\* C38: a second call of run on the same instance leaves each node's state
\* describing the second run only: a node that ended done in the second run
\* carries no error of the first, and the record a function's tracking calls
\* append to holds no reads or writes when the second run calls the function.
C38_SecondRunOnly ==
    /\ [](second_run =>
            \A fn \in called :
                state[FnToId[fn]].status = "done"
                => /\ state[FnToId[fn]].error = NoError
                   /\ state[FnToId[fn]].traceback = FALSE)
    /\ [][(second_run /\ pc = "start" /\ pc' = "inline")
            => /\ state'[CurrentId].reads = <<>>
               /\ state'[CurrentId].writes = <<>>
               /\ state'[CurrentId].rows_written = NoRows]_vars

\* ------------------------------------------------------------------ C35
\* C35: no checkpoint written by run records a node with status running, and
\* the aggregate status of a checkpoint is done, failed or pending.
C35_NoRunningInCheckpoint ==
    \A k \in 1..Len(checkpoints) :
        /\ checkpoints[k].status \in {"done", "failed", "pending"}
        /\ \A id \in TaskIds : checkpoints[k].nodes[id].status # "running"

\* C35 in the first call of run on an instance
C35_FirstRun == second_run \/ C35_NoRunningInCheckpoint

\* ------------------------------------------------------------------ C36
\* C36: in a run without targets, whenever a node is running or done every
\* dependency it declares is done.
C36_DependenciesDoneFirst ==
    (targets = {} /\ pc \notin {"idle", "filter"})
    => \A fn \in Fns :
          state[FnToId[fn]].status \in {"running", "done"}
          => \A k \in 1..Len(nodes[fn]) :
                state[FnToId[nodes[fn][k]]].status = "done"

\* C36 in the first call of run on an instance
C36_FirstRun == second_run \/ C36_DependenciesDoneFirst


\* ------------------------------------------------------------------ C33
\* C33: the functions of a mapping DAG accepts get different task ids, the
\* state table has one entry per function, and a status change of one
\* function leaves the entries of the others as they were.
C33_DistinctIds ==
    /\ [](init_pc = "done" =>
            /\ \A f, g \in Fns : f # g => fn_to_id[f] # fn_to_id[g]
            /\ Cardinality(DOMAIN new_state) = NumNodes)
    /\ [][init_pc = "done" =>
            \A f, g \in Fns :
                (f # g /\ new_state'[fn_to_id[f]] # new_state[fn_to_id[f]])
                => new_state'[fn_to_id[g]] = new_state[fn_to_id[g]]]_vars

====
